---- MODULE Spec2Model ----
(***************************************************************************)
(* Model of test-kafka-producer.py: the message builder                    *)
(* create_cell_update_message and the control flow of main() (connect,     *)
(* the send loop, the two except handlers and the cleanup block).          *)
(*                                                                         *)
(* Time is the wall clock in milliseconds since the start of the model.    *)
(* Outcomes of the random module and of the environment (exceptions        *)
(* raised by the Kafka client or by print, the interrupt signal, the       *)
(* readings of the wall clock) are inputs.  What the random module and    *)
(* the clock return to the next statement is held in drawn and ticks; the  *)
(* steps of the program take it from there, whatever it is.  The ranges    *)
(* of the outcomes are those of the code; the outcomes given to the runs   *)
(* explored are all those within the bounds of the model.                  *)
(***************************************************************************)
EXTENDS Integers, Sequences, FiniteSets, TLC

VARIABLES
    pc,           \* position of main()
    producer,     \* the local name `producer`: "unbound", "open", "closed"
    pending,      \* exception propagating through the finally block
    outcome,      \* how main() ended: "running", "returned", "raised"
    batch_count,  \* the local batch_count
    message,      \* the local message (NoMessage before the first batch)
    clock,        \* the wall clock, in ms
    unflushed,    \* records handed to send() and not yet flushed
    hist,         \* history: what main() has done so far
    args,         \* arguments of a direct call of
                  \* create_cell_update_message
    ret,          \* value returned by that call
    drawn,        \* what the random module returns to the next statement
    ticks         \* what time.time() returns to it, in ms, call after call

vars == <<pc, producer, pending, outcome, batch_count, message, clock,
          unflushed, hist, args, ret, drawn, ticks>>

(***************************************************************************)
(* Bounds of the model.                                                    *)
(***************************************************************************)
MaxNumChanges == 2      \* direct calls pass num_changes in 0..MaxNumChanges
MaxBatches == 2         \* main() builds at most this many batches
StartClock == 2000      \* the clock reading when the program starts
MaxClock == 4010        \* the clock readings are in 0..MaxClock
Offset == 0             \* a number drawn from a range lies this far inside
                        \* one of the two ends of the range
MainLevel == 0          \* but in main() the row, the column and the value
                        \* of an iteration lie this far above the low end
                        \* of their range,
FirstMainType == 4      \* and the data types drawn in main() are those
                        \* from this place of value_types on
Gap == 0                \* milliseconds from one clock reading to the next,
SetBack == 2000         \* unless the clock was set back in between, by
                        \* this many milliseconds
OtherUser == 2          \* direct calls pass the grid of user 1 or of this
                        \* user

(***************************************************************************)
(* Python values: a value with its runtime type.  A float is kept as its   *)
(* number of hundredths (the code rounds to 2 decimals).                   *)
(***************************************************************************)
PyStr(s) == [pytype |-> "str", val |-> s]
PyFloat(hundredths) == [pytype |-> "float", val |-> hundredths]
PyInt(i) == [pytype |-> "int", val |-> i]
PyBool(b) == [pytype |-> "bool", val |-> b]

(***************************************************************************)
(* The random module: what each call of the program can return.            *)
(***************************************************************************)
\* (variant: the upper end taken one too far)
randint_exclusive(a, b) == a..(b + 1)

\* random.randint(a, b): any N with a <= N <= b
randint(a, b) == a..b

\* round(random.uniform(a, b), 2), in hundredths
uniform_round2(a, b) == (a * 100)..(b * 100)

value_types == <<"string", "number", "integer", "boolean", "timestamp">>

random_choice(seq) == {seq[i] : i \in 1..Len(seq)}

RowDraws == randint(0, 49)
ColDraws == randint(0, 24)
StringDraws == randint(1000, 9999)
NumberDraws == uniform_round2(1, 1000)
IntegerDraws == randint(1, 1000)
BooleanDraws == random_choice(<<TRUE, FALSE>>)
SuffixDraws == randint(1000, 9999)
CountDraws == randint(1, 3)

\* time.sleep(random.uniform(0.5, 2)): the milliseconds slept
SleepDraws == (5 * 100)..(2 * 1000)

\* the random outcome that decides newValue, by data_type
ValueDraws(data_type) ==
    IF data_type = "string" THEN StringDraws
    ELSE IF data_type = "number" THEN NumberDraws
    ELSE IF data_type = "integer" THEN IntegerDraws
    ELSE IF data_type = "boolean" THEN BooleanDraws
    ELSE {0}    \* timestamp: nothing is drawn

\* d is a random outcome of one iteration of the for loop
IterDraws(d) ==
    /\ d.row \in RowDraws
    /\ d.col \in ColDraws
    /\ d.data_type \in random_choice(value_types)
    /\ d.value \in ValueDraws(d.data_type)

\* draws are the random outcomes of a whole call with num_changes = n,
\* one per iteration
LoopDraws(n, draws) ==
    /\ DOMAIN draws = 1..n
    /\ \A i \in 1..n : IterDraws(draws[i])

\* how many of the first i iterations read the clock (line 43)
RECURSIVE TimestampCount(_, _)
TimestampCount(draws, i) ==
    IF i <= 0 THEN 0
    ELSE TimestampCount(draws, i - 1) +
         (IF draws[i].data_type = "timestamp" THEN 1 ELSE 0)

\* reads are the clock readings of a call with the outcomes draws, in the
\* order the call takes them: one for each timestamp iteration (line 43),
\* one for batchId (line 53), one for timestamp (line 57).  The wall clock
\* gives any of them.
ClockReads(draws, reads) ==
    /\ DOMAIN reads = 1..(TimestampCount(draws, Len(draws)) + 2)
    /\ \A i \in DOMAIN reads : reads[i] \in Nat

(***************************************************************************)
(* create_cell_update_message                                              *)
(***************************************************************************)
\* lines 34-43: the value for a data_type, from the outcome drawn and the
\* clock reading t
NewValue(data_type, draw, t) ==
    IF data_type = "string" THEN PyStr("Updated_" \o ToString(draw))
    ELSE IF data_type = "number" THEN PyFloat(draw)
    ELSE IF data_type = "integer" THEN PyInt(draw)
    ELSE IF data_type = "boolean" THEN PyBool(draw)
    ELSE PyInt(t)

\* lines 45-50: the entry appended by one iteration
Change(d, t) ==
    [row |-> d.row, column |-> d.col,
     newValue |-> NewValue(d.data_type, d.value, t),
     dataType |-> d.data_type]

\* (variant: the clock reading left out of the id)
BatchId_notime(t, suffix) == "batch_" \o ToString(suffix)

\* line 53: f"batch_{int(time.time() * 1000)}_{random.randint(1000, 9999)}"
BatchId(t, suffix) == "batch_" \o ToString(t) \o "_" \o ToString(suffix)

\* line 43: the reading iteration i takes, when it takes one
time_time(draws, reads, i) ==
    IF draws[i].data_type = "timestamp"
    THEN reads[TimestampCount(draws, i)]
    ELSE 0

\* (variant: the loop stops one iteration early)
create_cell_update_message_short(grid_id, n, draws, suffix, reads) ==
    [batchId |-> BatchId(reads[Len(reads) - 1], suffix),
     gridId |-> grid_id,
     eventType |-> "CELL_UPDATE",
     changes |-> [i \in 1..(n - 1) |->
                     Change(draws[i], time_time(draws, reads, i))],
     timestamp |-> reads[Len(reads)]]

\* (variant: another event tag)
create_cell_update_message_evt(grid_id, n, draws, suffix, reads) ==
    [batchId |-> BatchId(reads[Len(reads) - 1], suffix),
     gridId |-> grid_id,
     eventType |-> "CELL_UPDATES",
     changes |-> [i \in 1..n |->
                     Change(draws[i], time_time(draws, reads, i))],
     timestamp |-> reads[Len(reads)]]

\* (variant: the timestamp taken from the random suffix, not the clock)
create_cell_update_message_rndts(grid_id, n, draws, suffix, reads) ==
    [batchId |-> BatchId(reads[Len(reads) - 1], suffix),
     gridId |-> grid_id,
     eventType |-> "CELL_UPDATE",
     changes |-> [i \in 1..n |->
                     Change(draws[i], time_time(draws, reads, i))],
     timestamp |-> suffix]

\* lines 21-58.  The batch returned for num_changes = n, the random
\* outcomes draws (one per iteration) and suffix, and the clock readings
\* reads: the last but one goes into batchId, the last into timestamp.
create_cell_update_message(grid_id, n, draws, suffix, reads) ==
    [batchId |-> BatchId(reads[Len(reads) - 1], suffix),
     gridId |-> grid_id,
     eventType |-> "CELL_UPDATE",
     changes |-> [i \in 1..n |->
                     Change(draws[i], time_time(draws, reads, i))],
     timestamp |-> reads[Len(reads)]]

\* line 21: the default of grid_id
DefaultGridId == "user1_view1"

\* the readings never go down, from the reading t on
Monotonic(t, reads) ==
    \A i \in DOMAIN reads : reads[i] >= (IF i = 1 THEN t ELSE reads[i - 1])

(***************************************************************************)
(* The outcomes given to the runs explored.  The ranges above are too      *)
(* large to enumerate; every restriction is one of the bounds of the       *)
(* model.  Within the bounds every combination of outcomes is explored.    *)
(***************************************************************************)
Lo(S) == CHOOSE x \in S : (x - 1) \notin S
Hi(S) == CHOOSE x \in S : (x + 1) \notin S

\* the numbers of the range S that lie Offset inside one of its ends
Explored(S) == {Lo(S) + Offset, Hi(S) - Offset} \cap S

\* the number of the range S that lies MainLevel above its low end
MainExplored(S) == {Lo(S) + MainLevel} \cap S

ExploredValues(data_type) ==
    IF data_type \in {"boolean", "timestamp"} THEN ValueDraws(data_type)
    ELSE Explored(ValueDraws(data_type))

MainValues(data_type) ==
    IF data_type \in {"boolean", "timestamp"} THEN ValueDraws(data_type)
    ELSE MainExplored(ValueDraws(data_type))

\* the data types drawn in main(): those from FirstMainType on
MainTypes ==
    {value_types[i] : i \in FirstMainType..Len(value_types)}

\* the outcomes of an iteration, rows, columns and values from the given
\* sets
Iterations(types, rows, cols, Values(_)) ==
    UNION {[row : rows, col : cols, data_type : {d}, value : Values(d)] :
              d \in types}

\* the outcomes of an iteration of a direct call
ExploredIter ==
    Iterations(random_choice(value_types), Explored(RowDraws),
               Explored(ColDraws), ExploredValues)

\* the outcomes of an iteration of a call made by main()
MainIter ==
    Iterations(MainTypes, MainExplored(RowDraws), MainExplored(ColDraws),
               MainValues)

ExploredSuffixes == Explored(SuffixDraws)
ExploredSleeps == Explored(SleepDraws)
ExploredGridIds ==
    {DefaultGridId, "user" \o ToString(OtherUser) \o "_view1"}

\* milliseconds from one clock reading to the next
ExploredGaps == {Gap, 0 - SetBack}

RECURSIVE GapSum(_, _)
GapSum(gaps, i) == IF i = 0 THEN 0 ELSE GapSum(gaps, i - 1) + gaps[i]

\* the readings that start at clock t and lie the given gaps apart
Readings(t, gaps) == [i \in 1..Len(gaps) |-> t + GapSum(gaps, i)]

\* the readings of a call with the outcomes draws, at clock t
ExploredReads(t, draws) ==
    {r \in {Readings(t, gaps) :
               gaps \in [1..(TimestampCount(draws, Len(draws)) + 2) ->
                            ExploredGaps]} :
        \A i \in DOMAIN r : r[i] \in 0..MaxClock}

NoMessage == [batchId |-> "", gridId |-> "", eventType |-> "",
              changes |-> << >>, timestamp |-> 0]

(***************************************************************************)
(* History of a run of main(): what the environment has seen it do.        *)
(***************************************************************************)
NoSeen == [batchId |-> "", timestamp |-> 0]

NoArgs == [grid_id |-> "", num_changes |-> -1]

\* nothing in store: the random module has been asked nothing yet
NoDraws == [count |-> 0, draws |-> << >>, suffix |-> 0, sleep |-> 0]

NoHist ==
    [seen |-> NoSeen,       \* batchId and timestamp of one of the batches
                            \* passed to send earlier in the loop
     seenKey |-> <<0, 0>>,  \* the clock reading and suffix of its batchId
     key |-> <<0, 0>>,      \* those of message.batchId
     calls |-> 0,           \* calls of create_cell_update_message
     built |-> 0,           \* those that returned a batch
     sends |-> 0,           \* calls of producer.send
     flushes |-> 0,         \* calls of producer.flush
     acked |-> 0,           \* calls of producer.flush that returned
     closeCalls |-> 0,      \* calls of producer.close
     logged |-> 0,          \* success lines printed
     errLogged |-> FALSE,   \* the line of the generic handler was printed
     faults |-> << >>,      \* <<position, exception>> of everything raised
     stepped |-> FALSE]     \* the wall clock was set back

KI == "KeyboardInterrupt"
Exc == "Exception"

\* what each step can raise: the interrupt arrives anywhere; the generic
\* failures are those of the Kafka client, of building a message and of
\* print
Raises(at) == IF at \in {"sleep", "cleanup"} THEN {KI} ELSE {KI, Exc}

\* create_producer() has returned and its result is bound
Created == producer # "unbound"

\* the current message of main() has been passed to producer.send
Passed == hist.built >= 1 /\ hist.sends = hist.built

\* k is raised at position at; the history of the loop is kept no longer
Fault(at, k) ==
    [hist EXCEPT !.faults = Append(@, <<at, k>>),
                 !.seen = NoSeen, !.seenKey = <<0, 0>>]

\* lines 89-92: the handler that an exception raised in the try body reaches
Handler(k) == IF k = KI THEN "except_ki" ELSE "except_exc"

(***************************************************************************)
(* main()                                                                  *)
(***************************************************************************)
Init ==
    /\ pc = "banner"
    /\ producer = "unbound"
    /\ pending = "none"
    /\ outcome = "running"
    /\ batch_count = 0
    /\ message = NoMessage
    /\ clock = StartClock
    /\ unflushed = 0
    /\ hist = NoHist
    /\ args = NoArgs
    /\ ret = NoMessage
    /\ drawn = NoDraws
    /\ ticks = << >>

\* lines 61-63: the prints before the try statement
Banner ==
    /\ pc = "banner"
    /\ \/ /\ pc' = "connect"
          /\ UNCHANGED <<outcome, hist>>
       \/ \E k \in Raises("banner") :
          /\ pc' = "done"
          /\ outcome' = "raised"
          /\ hist' = Fault("banner", k)
    /\ UNCHANGED <<producer, pending, batch_count, message, clock,
                   unflushed, args, ret, drawn, ticks>>

\* line 66: producer = create_producer()
Connect ==
    /\ pc = "connect"
    /\ \/ /\ producer' = "open"
          /\ pc' = "connected_log"
          /\ UNCHANGED hist
       \/ \E k \in Raises("connect") :
          /\ pc' = Handler(k)
          /\ hist' = Fault("connect", k)
          /\ UNCHANGED producer
    /\ UNCHANGED <<pending, outcome, batch_count, message, clock,
                   unflushed, args, ret, drawn, ticks>>

\* lines 67-69: print, batch_count = 1
ConnectedLog ==
    /\ pc = "connected_log"
    /\ \/ /\ batch_count' = 1
          /\ pc' = "synth"
          /\ UNCHANGED hist
       \/ \E k \in Raises("connected_log") :
          /\ pc' = Handler(k)
          /\ hist' = Fault("connected_log", k)
          /\ UNCHANGED batch_count
    /\ UNCHANGED <<producer, pending, outcome, message, clock,
                   unflushed, args, ret, drawn, ticks>>

\* producer.send(value=message) is called: the history keeps the batch
\* sent, or goes on keeping an earlier one when it has one
Sent(h) ==
    {[h EXCEPT !.sends = @ + 1,
               !.seen = [batchId |-> message.batchId,
                         timestamp |-> message.timestamp],
               !.seenKey = h.key]} \cup
    (IF h.seen = NoSeen THEN {} ELSE {[h EXCEPT !.sends = @ + 1]})

\* where the clock stands when a call is left by an exception after it has
\* taken some of its readings (none, or the first ones), and whether these
\* went down
RaisedInside(t, readings) ==
    {[clock |-> IF taken = 0 THEN t ELSE readings[taken],
      stepped |-> ~Monotonic(t, SubSeq(readings, 1, taken))] :
        taken \in 0..Len(readings)}

\* line 73: message = create_cell_update_message(num_changes=randint(1, 3))
\* with what the random module and the clock return to it
Synthesize ==
    /\ pc = "synth"
    /\ \/ /\ drawn.count \in CountDraws
          /\ LoopDraws(drawn.count, drawn.draws)
          /\ drawn.suffix \in SuffixDraws
          /\ ClockReads(drawn.draws, ticks)
          /\ message' = create_cell_update_message(DefaultGridId,
                            drawn.count, drawn.draws, drawn.suffix, ticks)
          /\ clock' = ticks[Len(ticks)]
          /\ hist' = [hist EXCEPT
                         !.calls = @ + 1,
                         !.built = @ + 1,
                         !.key = <<ticks[Len(ticks) - 1], drawn.suffix>>,
                         !.stepped = @ \/ ~Monotonic(clock, ticks)]
          /\ pc' = "send"
       \/ \E k \in Raises("synth") :       \* raised before the call
          /\ pc' = Handler(k)
          /\ hist' = Fault("synth", k)
          /\ UNCHANGED <<message, clock>>
       \/ \E k \in Raises("synth"), at \in RaisedInside(clock, ticks) :
          \* raised inside the call, after it has taken some readings
          /\ drawn.count \in CountDraws
          /\ pc' = Handler(k)
          /\ clock' = at.clock
          /\ hist' = [Fault("synth", k) EXCEPT
                         !.calls = @ + 1,
                         !.stepped = @ \/ at.stepped]
          /\ UNCHANGED message
    /\ drawn' = NoDraws
    /\ ticks' = << >>
    /\ UNCHANGED <<producer, pending, outcome, batch_count, unflushed,
                   args, ret>>

\* line 75: producer.send('grid-updates', value=message, key='user1_view1');
\* the interrupt arrives in the call or before it
Send ==
    /\ pc = "send"
    /\ \/ /\ unflushed' = unflushed + 1
          /\ pc' = "flush"
          /\ hist' \in Sent(hist)
       \/ \E k \in Raises("send") :
          /\ pc' = Handler(k)
          /\ hist' = [Fault("send", k) EXCEPT !.sends = @ + 1]
          /\ UNCHANGED unflushed
       \/ /\ pc' = Handler(KI)
          /\ hist' = Fault("send", KI)
          /\ UNCHANGED unflushed
    /\ UNCHANGED <<producer, pending, outcome, batch_count, message, clock,
                   args, ret, drawn, ticks>>

\* (variant: flush returns without waiting for the acknowledgement)
Flush_nowait ==
    /\ pc = "flush"
    /\ \/ /\ pc' = "log"
          /\ hist' = [hist EXCEPT !.flushes = @ + 1, !.acked = @ + 1]
       \/ \E k \in Raises("flush") :
          /\ pc' = Handler(k)
          /\ hist' = [Fault("flush", k) EXCEPT !.flushes = @ + 1]
       \/ /\ pc' = Handler(KI)
          /\ hist' = Fault("flush", KI)
    /\ UNCHANGED <<producer, pending, outcome, batch_count, message, clock,
                   unflushed, args, ret, drawn, ticks>>

\* line 76: producer.flush(); the interrupt arrives in the call or before
\* it
Flush ==
    /\ pc = "flush"
    /\ \/ /\ unflushed' = 0
          /\ pc' = "log"
          /\ hist' = [hist EXCEPT !.flushes = @ + 1, !.acked = @ + 1]
       \/ \E k \in Raises("flush") :
          /\ pc' = Handler(k)
          /\ hist' = [Fault("flush", k) EXCEPT !.flushes = @ + 1]
          /\ UNCHANGED unflushed
       \/ /\ pc' = Handler(KI)
          /\ hist' = Fault("flush", KI)
          /\ UNCHANGED unflushed
    /\ UNCHANGED <<producer, pending, outcome, batch_count, message, clock,
                   args, ret, drawn, ticks>>

\* lines 78-82: the success line and the details of the batch; a failure
\* comes before or after the success line is out
LogSent ==
    /\ pc = "log"
    /\ \/ /\ pc' = "sleep"
          /\ hist' = [hist EXCEPT !.logged = @ + 1]
       \/ \E k \in Raises("log"), printed \in BOOLEAN :
          /\ pc' = Handler(k)
          /\ hist' = [Fault("log", k) EXCEPT !.logged =
                         IF printed THEN @ + 1 ELSE @]
    /\ UNCHANGED <<producer, pending, outcome, batch_count, message, clock,
                   unflushed, args, ret, drawn, ticks>>

\* (variant: the interrupt of the sleep is caught inside the loop, which
\* goes on)
Sleep_resumes ==
    /\ pc = "sleep"
    /\ batch_count' = batch_count + 1
    /\ \/ /\ drawn.sleep \in SleepDraws
          /\ clock' = clock + drawn.sleep
          /\ UNCHANGED hist
       \/ \E k \in Raises("sleep") :
          /\ hist' = Fault("sleep", k)
          /\ UNCHANGED clock
    /\ pc' = "synth"
    /\ drawn' = NoDraws
    /\ UNCHANGED <<producer, pending, outcome, message, unflushed,
                   args, ret, ticks>>

\* lines 84-87: batch_count += 1, then time.sleep(random.uniform(0.5, 2))
Sleep ==
    /\ pc = "sleep"
    /\ batch_count' = batch_count + 1
    /\ \/ /\ drawn.sleep \in SleepDraws
          /\ clock' = clock + drawn.sleep
          /\ pc' = "synth"
          /\ UNCHANGED hist
       \/ \E k \in Raises("sleep") :
          /\ pc' = Handler(k)
          /\ hist' = Fault("sleep", k)
          /\ UNCHANGED clock
    /\ drawn' = NoDraws
    /\ UNCHANGED <<producer, pending, outcome, message, unflushed,
                   args, ret, ticks>>

\* lines 89-90: except KeyboardInterrupt.  What the print raises leaves
\* the try statement through the finally block.
ExceptKeyboardInterrupt ==
    /\ pc = "except_ki"
    /\ pc' = "cleanup"
    /\ \/ UNCHANGED <<pending, hist>>
       \/ \E k \in Raises("except_ki") :
          /\ pending' = k
          /\ hist' = Fault("except_ki", k)
    /\ UNCHANGED <<producer, outcome, batch_count, message, clock,
                   unflushed, args, ret, drawn, ticks>>

\* (variant: the failed batch is sent again)
ExceptException_retry ==
    /\ pc = "except_exc"
    /\ pc' = IF Passed THEN "send" ELSE "cleanup"
    /\ \/ /\ hist' = [hist EXCEPT !.errLogged = TRUE]
          /\ UNCHANGED pending
       \/ \E k \in Raises("except_exc"), printed \in BOOLEAN :
          /\ pending' = k
          /\ hist' = [Fault("except_exc", k) EXCEPT !.errLogged = printed]
    /\ UNCHANGED <<producer, outcome, batch_count, message, clock,
                   unflushed, args, ret, drawn, ticks>>

\* lines 91-92: except Exception as e.  What the print raises (before or
\* after the line is out) leaves the try statement through the finally
\* block.
ExceptException ==
    /\ pc = "except_exc"
    /\ pc' = "cleanup"
    /\ \/ /\ hist' = [hist EXCEPT !.errLogged = TRUE]
          /\ UNCHANGED pending
       \/ \E k \in Raises("except_exc"), printed \in BOOLEAN :
          /\ pending' = k
          /\ hist' = [Fault("except_exc", k) EXCEPT !.errLogged = printed]
    /\ UNCHANGED <<producer, outcome, batch_count, message, clock,
                   unflushed, args, ret, drawn, ticks>>

\* the end of the finally block: the inner try has swallowed whatever it
\* raised; an exception pending from a handler is raised again
LeaveFinally ==
    /\ pc' = "done"
    /\ outcome' = IF pending = "none" THEN "returned" ELSE "raised"

\* (variant: no inner try around close())
Cleanup_unguarded ==
    /\ pc = "cleanup"
    /\ \/ /\ producer = "unbound"
          /\ LeaveFinally
          /\ UNCHANGED <<producer, hist>>
       \/ \E k \in Raises("cleanup") :
          /\ LeaveFinally
          /\ hist' = Fault("cleanup", k)
          /\ UNCHANGED producer
       \/ /\ producer # "unbound"
          /\ producer' = "closed"
          /\ hist' = [hist EXCEPT !.closeCalls = @ + 1]
          /\ pc' = "closed_log"
          /\ UNCHANGED outcome
       \/ /\ producer # "unbound"
          /\ \E k \in Raises("close") :
             hist' = [Fault("close", k) EXCEPT !.closeCalls = @ + 1]
          /\ producer' = "closed"
          /\ pc' = "done"
          /\ outcome' = "raised"
    /\ UNCHANGED <<pending, batch_count, message, clock, unflushed,
                   args, ret, drawn, ticks>>

\* lines 93-95, 97-98: the inner try up to the call of producer.close()
Cleanup ==
    /\ pc = "cleanup"
    /\ \/ /\ producer = "unbound"       \* UnboundLocalError, swallowed
          /\ LeaveFinally
          /\ UNCHANGED <<producer, hist>>
       \/ \E k \in Raises("cleanup") :  \* interrupted before the call
          /\ LeaveFinally
          /\ hist' = Fault("cleanup", k)
          /\ UNCHANGED producer
       \/ /\ producer # "unbound"       \* close() returns
          /\ producer' = "closed"
          /\ hist' = [hist EXCEPT !.closeCalls = @ + 1]
          /\ pc' = "closed_log"
          /\ UNCHANGED outcome
       \/ /\ producer # "unbound"       \* close() raises, swallowed
          /\ \E k \in Raises("close") :
             hist' = [Fault("close", k) EXCEPT !.closeCalls = @ + 1]
          /\ producer' = "closed"
          /\ LeaveFinally
    /\ UNCHANGED <<pending, batch_count, message, clock, unflushed,
                   args, ret, drawn, ticks>>

\* (variant: the failure of the print after close() closes once more)
ClosedLog_recloses ==
    /\ pc = "closed_log"
    /\ LeaveFinally
    /\ \/ UNCHANGED hist
       \/ \E k \in Raises("closed_log") :
          hist' = [Fault("closed_log", k) EXCEPT !.closeCalls = @ + 1]
    /\ UNCHANGED <<producer, pending, batch_count, message, clock,
                   unflushed, args, ret, drawn, ticks>>

\* lines 96-98: the print after close(); what it raises is swallowed
ClosedLog ==
    /\ pc = "closed_log"
    /\ LeaveFinally
    /\ \/ UNCHANGED hist
       \/ \E k \in Raises("closed_log") : hist' = Fault("closed_log", k)
    /\ UNCHANGED <<producer, pending, batch_count, message, clock,
                   unflushed, args, ret, drawn, ticks>>

\* The random module and the wall clock: what they return to the statement
\* main() is about to run (line 73 and the call it makes, or line 87),
\* within the bounds of the model.
Draw ==
    /\ drawn = NoDraws
    /\ ticks = << >>
    /\ \/ /\ pc = "synth"
          /\ batch_count <= MaxBatches
          /\ \E n \in CountDraws :
             \E draws \in [1..n -> MainIter], suffix \in ExploredSuffixes :
                /\ drawn' = [count |-> n, draws |-> draws,
                             suffix |-> suffix, sleep |-> 0]
                /\ ticks' \in ExploredReads(clock, draws)
       \/ /\ pc = "sleep"
          /\ \E d \in ExploredSleeps :
                /\ clock + d <= MaxClock
                /\ drawn' = [NoDraws EXCEPT !.sleep = d]
          /\ UNCHANGED ticks
    /\ UNCHANGED <<pc, producer, pending, outcome, batch_count, message,
                   clock, unflushed, hist, args, ret>>

Next ==
    \/ Banner
    \/ Connect
    \/ ConnectedLog
    \/ Draw
    \/ Synthesize
    \/ Send
    \/ Flush
    \/ LogSent
    \/ Sleep
    \/ ExceptKeyboardInterrupt
    \/ ExceptException
    \/ Cleanup
    \/ ClosedLog

Spec == Init /\ [][Next]_vars

(***************************************************************************)
(* Direct calls of create_cell_update_message (any caller).                *)
(***************************************************************************)
\* a caller is about to call
\* create_cell_update_message(grid_id, num_changes); the arguments, the
\* random outcomes and the clock readings of the call are any within the
\* bounds of the model
InitCall ==
    /\ pc = "call"
    /\ producer = "unbound"
    /\ pending = "none"
    /\ outcome = "running"
    /\ batch_count = 0
    /\ message = NoMessage
    /\ clock = StartClock
    /\ unflushed = 0
    /\ hist = NoHist
    /\ ret = NoMessage
    /\ \E n \in 0..MaxNumChanges :
       \E draws \in [1..n -> ExploredIter] :
          /\ args \in [grid_id : ExploredGridIds, num_changes : {n}]
          /\ drawn \in [count : {0}, draws : {draws},
                        suffix : ExploredSuffixes, sleep : {0}]
          /\ ticks \in ExploredReads(StartClock, draws)

\* lines 21-58: the call, with what the random module and the clock return
\* to it
Call ==
    /\ pc = "call"
    /\ LoopDraws(args.num_changes, drawn.draws)
    /\ drawn.suffix \in SuffixDraws
    /\ ClockReads(drawn.draws, ticks)
    /\ ret' = create_cell_update_message(args.grid_id, args.num_changes,
                  drawn.draws, drawn.suffix, ticks)
    /\ clock' = ticks[Len(ticks)]
    /\ hist' = [hist EXCEPT !.stepped = @ \/ ~Monotonic(clock, ticks)]
    /\ pc' = "returned"
    /\ drawn' = NoDraws
    /\ ticks' = << >>
    /\ UNCHANGED <<producer, pending, outcome, batch_count, message,
                   unflushed, args>>

NextCall == Call

SpecCall == InitCall /\ [][NextCall]_vars

SpecAll == (Init \/ InitCall) /\ [][Next \/ NextCall]_vars

(***************************************************************************)
(* Properties of create_cell_update_message                                *)
(***************************************************************************)
Returned == pc = "returned"

InRange(c) == c.row \in 0..49 /\ c.column \in 0..24

\* the runtime type of newValue is the one its dataType declares
ShapeOk(c) ==
    /\ c.dataType \in {"string", "number", "integer", "boolean", "timestamp"}
    /\ c.dataType = "string" => c.newValue.pytype = "str"
    /\ c.dataType = "number" => c.newValue.pytype = "float"
    /\ c.dataType = "integer" =>
          c.newValue.pytype = "int" /\ c.newValue.val \in 1..1000
    /\ c.dataType = "boolean" =>
          c.newValue.pytype = "bool" /\ c.newValue.val \in BOOLEAN
    /\ c.dataType = "timestamp" =>
          /\ c.newValue.pytype = "int"
          /\ c.newValue.val \in Nat

\* C3: every Change of a returned batch has row in 0..49, column in 0..24,
\* a dataType among the five tags and a newValue of the shape the tag
\* declares (an integer in 1..1000 for "integer", a millisecond clock
\* reading for "timestamp").
C3_ChangesWellFormed ==
    Returned =>
        \A i \in 1..Len(ret.changes) :
            InRange(ret.changes[i]) /\ ShapeOk(ret.changes[i])

C3_Witness ==
    /\ Returned
    /\ \E i, j \in 1..Len(ret.changes) :
          /\ ret.changes[i].dataType = "integer"
          /\ ret.changes[i].newValue.val = 1000
          /\ ret.changes[i].row = 49
          /\ ret.changes[j].dataType = "timestamp"
          /\ ret.changes[j].column = 24

\* C9: a call with num_changes = n >= 0 returns exactly n entries, each
\* with row in 0..49 and column in 0..24; entries are independent, two of
\* them may name the same cell.
C9_ExactlyNChanges ==
    Returned =>
        /\ Len(ret.changes) = args.num_changes
        /\ \A i \in 1..Len(ret.changes) : InRange(ret.changes[i])

C9_Witness ==
    /\ Returned
    /\ args.num_changes = MaxNumChanges
    /\ Len(ret.changes) = MaxNumChanges
    /\ ret.changes[1].row = ret.changes[2].row
    /\ ret.changes[1].column = ret.changes[2].column
    /\ ret.changes[1].newValue # ret.changes[2].newValue

\* C4 as stated: every batch returned, whatever num_changes the caller
\* passes, has between 1 and 3 changes and eventType "CELL_UPDATE".
C4_Original ==
    Returned =>
        Len(ret.changes) \in 1..3 /\ ret.eventType = "CELL_UPDATE"

\* C4 amended: every batch returned has exactly num_changes changes and
\* eventType "CELL_UPDATE", hence 1 to 3 changes when the caller passes
\* 1 to 3, as main() does: every message main() passes to producer.send
\* has 1 to 3 changes and eventType "CELL_UPDATE".
C4_Amended ==
    /\ Returned =>
          /\ Len(ret.changes) = args.num_changes
          /\ ret.eventType = "CELL_UPDATE"
          /\ args.num_changes \in 1..3 => Len(ret.changes) \in 1..3
    /\ Passed =>
          /\ Len(message.changes) \in 1..3
          /\ message.eventType = "CELL_UPDATE"

C4_Witness ==
    /\ Passed
    /\ pc = "flush"
    /\ Len(message.changes) = 3
    /\ hist.sends = 2

(***************************************************************************)
(* Properties of main()                                                    *)
(***************************************************************************)
Ended == outcome # "running"

RaisedAt(places) ==
    \E i \in 1..Len(hist.faults) : hist.faults[i][1] \in places

\* what left the loop, when something did
FirstFault == hist.faults[1]

\* nothing more is raised once the loop is left, up to the call of close()
QuietExit == ~RaisedAt({"except_ki", "except_exc", "cleanup"})

\* C1 as stated: however main() ends, close() has been called exactly
\* once.
C1_Original == Ended => hist.closeCalls = 1

\* C1 amended: close() is never called twice; when main() has ended it has
\* been called exactly once if create_producer() returned and no interrupt
\* arrived in the cleanup block before the call, and zero times otherwise
\* (in particular when creating the producer failed: the name producer is
\* unbound and the cleanup block swallows the error).
C1_Amended ==
    /\ hist.closeCalls <= 1
    /\ Ended =>
          (hist.closeCalls = 1 <=> (Created /\ ~RaisedAt({"cleanup"})))
    /\ (Ended /\ RaisedAt({"banner", "connect"})) => hist.closeCalls = 0

C1_Witness ==
    /\ outcome = "returned"
    /\ hist.closeCalls = 1
    /\ FirstFault = <<"flush", Exc>>
    /\ hist.sends = 2

SleepInterrupted ==
    Len(hist.faults) >= 1 /\ FirstFault = <<"sleep", KI>>

AfterLoop == pc \in {"except_ki", "except_exc", "cleanup", "closed_log",
                     "done"}

NoMoreSends ==
    /\ hist'.calls = hist.calls
    /\ hist'.built = hist.built
    /\ hist'.sends = hist.sends
    /\ hist'.flushes = hist.flushes

\* steps left, at most, before main() ends
StepsLeft(p) ==
    IF p \in {"except_ki", "except_exc"} THEN 3
    ELSE IF p = "cleanup" THEN 2
    ELSE IF p = "closed_log" THEN 1
    ELSE 0

\* out of the loop main() is never stuck before its end
NeverStuck == (AfterLoop /\ ~Ended) => ENABLED Next

\* out of the loop every step brings the end of main() nearer
EndsNearer == AfterLoop => StepsLeft(pc') < StepsLeft(pc)

\* close() is called while main() runs, never after its end
ClosesBeforeEnd == hist'.closeCalls # hist.closeCalls => outcome = "running"

\* C2 as stated: once the interrupt has arrived during the sleep, main()
\* is out of the loop and, when it has ended, has called close() exactly
\* once and has returned.
C2_Original ==
    SleepInterrupted =>
        /\ AfterLoop
        /\ Ended => (hist.closeCalls = 1 /\ outcome = "returned")

\* C2 amended: once the interrupt has arrived during the sleep, main() is
\* out of the loop, builds, sends and flushes nothing more and ends within
\* three steps; it calls close() at most once and before it ends; when it
\* has ended it has called close() exactly once unless a further interrupt
\* arrived in the cleanup block before the call (then not at all), and it
\* has returned unless the print of the interrupt handler raised (then the
\* exception escapes, after the cleanup block has run).
C2_SleepInterrupt ==
    /\ [](SleepInterrupted =>
             AfterLoop /\ hist.closeCalls <= 1 /\ NeverStuck)
    /\ [][SleepInterrupted =>
             NoMoreSends /\ EndsNearer /\ ClosesBeforeEnd]_vars
    /\ []((SleepInterrupted /\ Ended) =>
             /\ hist.closeCalls = 1 <=> ~RaisedAt({"cleanup"})
             /\ outcome = "returned" <=> ~RaisedAt({"except_ki"}))

C2_Witness ==
    /\ SleepInterrupted
    /\ QuietExit
    /\ outcome = "returned"
    /\ hist.closeCalls = 1
    /\ hist.sends = 2

\* C5 as stated: the timestamp of a batch passed to send is at least that
\* of every batch passed to send before it, whatever the wall clock does.
C5_Original ==
    (Passed /\ hist.seen # NoSeen) =>
        message.timestamp >= hist.seen.timestamp

\* C5 amended: the timestamps of the batches sent in one run are
\* non-decreasing provided the wall clock is not set back during the run.
C5_Amended ==
    (Passed /\ hist.seen # NoSeen /\ ~hist.stepped) =>
        message.timestamp >= hist.seen.timestamp

C5_Witness ==
    /\ Passed
    /\ pc = "flush"
    /\ hist.seen # NoSeen
    /\ hist.seen.batchId # message.batchId
    /\ ~hist.stepped
    /\ message.timestamp > hist.seen.timestamp

\* the batch just built and one passed to send before it
Fresh == pc = "send" /\ hist.seen # NoSeen

\* C6 as stated: no two batches carry the same batchId.
C6_Original == Fresh => message.batchId # hist.seen.batchId

\* C6 amended: two batches carry the same batchId exactly when they were
\* built at the same millisecond clock reading with the same random
\* suffix; in a run of main() in which the wall clock is not set back this
\* does not happen (a sleep separates two batches), so batchIds are unique.
C6_Amended ==
    Fresh =>
        /\ (message.batchId = hist.seen.batchId) <=> (hist.key = hist.seenKey)
        /\ ~hist.stepped => message.batchId # hist.seen.batchId

C6_Witness ==
    /\ Fresh
    /\ ~hist.stepped
    /\ hist.key[2] = hist.seenKey[2]
    /\ message.batchId # hist.seen.batchId

PublishFailed ==
    /\ Len(hist.faults) >= 1
    /\ FirstFault \in {<<"send", Exc>>, <<"flush", Exc>>}

\* C7 as stated: once producer.send or producer.flush has raised, main()
\* is out of the loop and, when it has ended, has logged the error and
\* called close().
C7_Original ==
    PublishFailed =>
        /\ AfterLoop
        /\ Ended => (hist.errLogged /\ hist.closeCalls = 1)

\* C7 amended: once producer.send or producer.flush has raised, main() is
\* out of the loop, calls neither send nor flush again (no retry, no new
\* batch) and ends within three steps.  When it has ended it has logged
\* the error unless the print of the handler itself raised, it has called
\* close() exactly once unless an interrupt arrived in the cleanup block
\* before the call (then not at all), and it has returned unless the print
\* of the handler raised (then the exception escapes, after the cleanup
\* block has run).
C7_NoRetry ==
    /\ [](PublishFailed => AfterLoop /\ hist.closeCalls <= 1 /\ NeverStuck)
    /\ [][PublishFailed =>
             NoMoreSends /\ EndsNearer /\ ClosesBeforeEnd]_vars
    /\ []((PublishFailed /\ Ended) =>
             /\ ~RaisedAt({"except_exc"}) => hist.errLogged
             /\ hist.closeCalls = 1 <=> ~RaisedAt({"cleanup"})
             /\ outcome = "returned" <=> ~RaisedAt({"except_exc"}))

C7_Witness ==
    /\ PublishFailed
    /\ FirstFault[1] = "send"
    /\ hist.sends = 2
    /\ Ended
    /\ hist.errLogged
    /\ hist.closeCalls = 1

\* the order of the steps of the loop, and the ways out of it
LoopOrder ==
    \/ pc' = pc
    \/ <<pc, pc'>> \in {<<"synth", "send">>, <<"send", "flush">>,
                        <<"flush", "log">>, <<"log", "sleep">>,
                        <<"sleep", "synth">>}
    \/ pc \notin {"synth", "send", "flush", "log", "sleep"}
    \/ pc' \in {"except_ki", "except_exc"}

\* C8: an iteration runs synthesize, send, flush, sleep in that order; a
\* batch is built or sent only when the previous one has been flushed, at
\* most one sent batch is unflushed at any time, and the success line of
\* batch #k is printed only after the k-th flush has returned.
C8_OneInFlight ==
    /\ [][LoopOrder]_vars
    /\ [](/\ unflushed <= 1
          /\ pc \in {"synth", "send"} => unflushed = 0
          /\ pc \in {"synth", "send"} => hist.acked = hist.sends
          /\ hist.logged <= hist.acked
          /\ hist.acked <= hist.sends
          /\ hist.sends <= hist.built
          /\ hist.built <= hist.sends + 1
          /\ pc = "log" => batch_count = hist.acked)
    /\ [][hist'.logged # hist.logged => batch_count = hist.acked]_vars

C8_Witness ==
    /\ pc = "sleep"
    /\ hist.logged = 2
    /\ hist.acked = 2
    /\ batch_count = 2
    /\ unflushed = 0

\* C10 as stated: main() never lets an exception escape.
C10_Original == outcome # "raised"

\* C10 amended: main() returns normally whenever everything raised was
\* raised in the try body or in the cleanup block (close() raising, the
\* unbound producer, the print after close()); an exception escapes main()
\* only if it was raised by the prints before the try statement or by the
\* print of an except handler.  main() ends only after something was
\* raised: the loop never ends on its own.
C10_Amended ==
    /\ outcome = "raised" => RaisedAt({"banner", "except_ki", "except_exc"})
    /\ (Ended /\ ~RaisedAt({"banner", "except_ki", "except_exc"})) =>
          outcome = "returned"
    /\ Ended => Len(hist.faults) >= 1
    /\ Ended <=> pc = "done"

C10_Witness ==
    /\ outcome = "returned"
    /\ FirstFault = <<"sleep", KI>>
    /\ RaisedAt({"close"})
    /\ hist.closeCalls = 1

====
